---- MODULE Spec2Model ----
(***************************************************************************)
(* State-machine model of the inventory application's cost-allocation and  *)
(* revenue re-investment engine: the DB snapshot, the purchase, sale and   *)
(* transaction save / delete handlers and the RevenueService functions.    *)
(*                                                                         *)
(* Money is counted in whole currency units.  Per-unit allocations, which  *)
(* the code computes with floating-point division, are exact fractions     *)
(* [n, d]; the one non-number the allocation can produce (0/0) is NaN.     *)
(* uid() is a counter (nextId); timestamps, names, notes and images are    *)
(* not modelled: no handler reads them.                                    *)
(***************************************************************************)
EXTENDS Integers, Sequences, FiniteSets, TLC

VARIABLES
    db,      \* the persisted snapshot (useAppData: db / saveDB)
    prev,    \* the snapshot the last handler was given
    op,      \* the last operation: its kind, inputs and outcome
    nextId,  \* the next value uid() returns
    tabs     \* two-tab runs: the snapshot each tab holds in memory (useState)

vars == <<db, prev, op, nextId, tabs>>

\* Number of identifiers uid() hands out in a run.
MaxIds == 2
\* Largest absolute stock a run explores.
MaxStock == 3

\* linkedPurchaseId / id of "no entity" (undefined in the code).
NoId == 0

-----------------------------------------------------------------------------
(* Sequence helpers (Array.prototype.map / filter / reduce / find)         *)

RECURSIVE SumSeq(_)
SumSeq(s) == IF s = <<>> THEN 0 ELSE Head(s) + SumSeq(Tail(s))

Min(a, b) == IF a < b THEN a ELSE b
Max(a, b) == IF a > b THEN a ELSE b
Abs(x) == IF x < 0 THEN -x ELSE x

\* array.filter(x => x.id !== id)
RemoveId(s, id) == SelectSeq(s, LAMBDA x : x.id # id)

\* array.find(x => x.id === id) as an option: <<x>> or <<>>
FindId(s, id) ==
    LET hits == SelectSeq(s, LAMBDA x : x.id = id)
    IN IF hits = <<>> THEN <<>> ELSE <<Head(hits)>>

\* array.map(x => (x.id === e.id ? e : x))
ReplaceId(s, e) == [i \in DOMAIN s |-> IF s[i].id = e.id THEN e ELSE s[i]]

-----------------------------------------------------------------------------
(* Exact fractions standing for the code's floating-point numbers          *)

RECURSIVE GCD(_, _)
GCD(a, b) == IF b = 0 THEN a ELSE GCD(b, a % b)

NaN == [n |-> 0, d |-> 0]
IsNaN(x) == x.d = 0

\* n / d in lowest terms.  d = 0 only arises as 0 / 0 in the allocation.
Frac(n, d) ==
    IF d = 0 THEN NaN
    ELSE LET g == GCD(Abs(n), Abs(d))
             s == IF d < 0 THEN -1 ELSE 1
         IN [n |-> s * (n \div g), d |-> s * (d \div g)]

FromInt(i) == [n |-> i, d |-> 1]
RAdd(x, y) == IF IsNaN(x) \/ IsNaN(y) THEN NaN ELSE Frac(x.n * y.d + y.n * x.d, x.d * y.d)
RSub(x, y) == IF IsNaN(x) \/ IsNaN(y) THEN NaN ELSE Frac(x.n * y.d - y.n * x.d, x.d * y.d)
RMul(x, y) == IF IsNaN(x) \/ IsNaN(y) THEN NaN ELSE Frac(x.n * y.n, x.d * y.d)
RDiv(x, y) == IF IsNaN(x) \/ IsNaN(y) THEN NaN ELSE Frac(x.n * y.d, x.d * y.n)
\* Math.ceil
RCeil(x) == IF IsNaN(x) THEN NaN ELSE FromInt(-((-x.n) \div x.d))

-----------------------------------------------------------------------------
(* RevenueService                                                          *)

calculateTotalRevenue(d) ==
    SumSeq([i \in DOMAIN d.sales |-> d.sales[i].totalAmount])

calculateTotalWithdrawn(d) ==
    SumSeq([i \in DOMAIN d.revenueWithdrawals |-> d.revenueWithdrawals[i].amount])

calculateTotalIncome(d) ==
    SumSeq([i \in DOMAIN d.transactions |->
              IF d.transactions[i].type = "income" THEN d.transactions[i].amount ELSE 0])

\* The same function without the clamp at 0.
UnclampedAvailableRevenue(d) ==
    calculateTotalRevenue(d) + calculateTotalIncome(d) - calculateTotalWithdrawn(d)

calculateAvailableRevenue(d) ==
    LET totalRevenue == calculateTotalRevenue(d)
        totalIncome == calculateTotalIncome(d)
        totalWithdrawn == calculateTotalWithdrawn(d)
    IN Max(0, totalRevenue + totalIncome - totalWithdrawn)

\* The same gate with a strict comparison against the balance.
StrictCanWithdrawRevenue(d, amount) ==
    IF amount <= 0 THEN FALSE ELSE amount < calculateAvailableRevenue(d)

canWithdrawRevenue(d, amount) ==
    IF amount <= 0 THEN FALSE
    ELSE LET available == calculateAvailableRevenue(d)
         IN amount <= available

createRevenueWithdrawal(amount, reason, linkedPurchaseId) ==
    [amount |-> amount, reason |-> reason, linkedPurchaseId |-> linkedPurchaseId]

\* The same breakdown without the clamp to the cost being funded.
UnclampedPaymentBreakdown(totalCost, revenueToUse) ==
    LET used == Max(0, revenueToUse)
        externalPayment == totalCost - used
    IN [revenueUsed |-> used,
        externalPayment |-> externalPayment,
        paymentSource |-> IF used = 0 THEN "external"
                          ELSE IF externalPayment = 0 THEN "revenue" ELSE "mixed"]

calculatePaymentBreakdown(totalCost, revenueToUse) ==
    LET clampedRevenueUsed == Max(0, Min(revenueToUse, totalCost))
        externalPayment == totalCost - clampedRevenueUsed
        paymentSource == IF clampedRevenueUsed = 0 THEN "external"
                         ELSE IF externalPayment = 0 THEN "revenue"
                         ELSE "mixed"
    IN [revenueUsed |-> clampedRevenueUsed,
        externalPayment |-> externalPayment,
        paymentSource |-> paymentSource]

\* The same function without the availability check.
processPurchaseUnchecked(d, purchase, revenueToUse, withdrawalReason) ==
    LET paymentBreakdown == calculatePaymentBreakdown(purchase.totalCost, revenueToUse)
        withdrawal ==
            IF paymentBreakdown.revenueUsed > 0
            THEN <<createRevenueWithdrawal(paymentBreakdown.revenueUsed,
                                           withdrawalReason, purchase.id)>>
            ELSE <<>>
        updatedPurchase ==
            [purchase EXCEPT !.revenueUsed = paymentBreakdown.revenueUsed,
                             !.paymentSource = paymentBreakdown.paymentSource]
    IN [threw |-> FALSE,
        updatedDb |-> [d EXCEPT !.purchases = ReplaceId(d.purchases, updatedPurchase),
                                !.revenueWithdrawals = d.revenueWithdrawals \o withdrawal],
        withdrawal |-> withdrawal]

\* The same function recording a withdrawal even when no revenue is used.
processPurchaseAlwaysWithdraws(d, purchase, revenueToUse, withdrawalReason) ==
    IF ~canWithdrawRevenue(d, revenueToUse)
    THEN [threw |-> TRUE, updatedDb |-> d, withdrawal |-> <<>>]
    ELSE LET paymentBreakdown == calculatePaymentBreakdown(purchase.totalCost, revenueToUse)
             withdrawal == <<createRevenueWithdrawal(paymentBreakdown.revenueUsed,
                                                     withdrawalReason, purchase.id)>>
             updatedPurchase ==
                 [purchase EXCEPT !.revenueUsed = paymentBreakdown.revenueUsed,
                                  !.paymentSource = paymentBreakdown.paymentSource]
         IN [threw |-> FALSE,
             updatedDb |-> [d EXCEPT !.purchases = ReplaceId(d.purchases, updatedPurchase),
                                     !.revenueWithdrawals =
                                         d.revenueWithdrawals \o withdrawal],
             withdrawal |-> withdrawal]

\* threw = TRUE stands for the thrown Error; nothing else of the result exists then.
processPurchaseWithRevenue(d, purchase, revenueToUse, withdrawalReason) ==
    IF ~canWithdrawRevenue(d, revenueToUse)
    THEN [threw |-> TRUE, updatedDb |-> d, withdrawal |-> <<>>]
    ELSE LET paymentBreakdown == calculatePaymentBreakdown(purchase.totalCost, revenueToUse)
             withdrawal ==
                 IF paymentBreakdown.revenueUsed > 0
                 THEN <<createRevenueWithdrawal(paymentBreakdown.revenueUsed,
                                                withdrawalReason, purchase.id)>>
                 ELSE <<>>
             updatedWithdrawals == d.revenueWithdrawals \o withdrawal
             updatedPurchase ==
                 [purchase EXCEPT !.revenueUsed = paymentBreakdown.revenueUsed,
                                  !.paymentSource = paymentBreakdown.paymentSource]
             updatedPurchases == ReplaceId(d.purchases, updatedPurchase)
         IN [threw |-> FALSE,
             updatedDb |-> [d EXCEPT !.purchases = updatedPurchases,
                                     !.revenueWithdrawals = updatedWithdrawals],
             withdrawal |-> withdrawal]

\* revenueToWithdraw of processTransactionWithRevenue (0 for income).
\* Variant of revenueToWithdraw: a mixed payment withdraws the whole amount.
revenueToWithdrawWholeAmount(transaction) ==
    IF transaction.type = "income" THEN 0
    ELSE IF transaction.paymentSource \in {"revenue", "mixed"} THEN transaction.amount
    ELSE 0

revenueToWithdraw(transaction) ==
    IF transaction.type = "income" THEN 0
    ELSE IF transaction.paymentSource = "revenue" THEN transaction.amount
    ELSE IF transaction.paymentSource = "mixed" /\ transaction.revenueAmount # 0
         THEN transaction.revenueAmount
    ELSE 0

processTransactionWithRevenue(d, transaction) ==
    IF transaction.type = "income"
    THEN [updatedDb |-> d, withdrawals |-> <<>>, error |-> FALSE]
    ELSE LET amount == revenueToWithdraw(transaction)
         IN IF amount > 0 /\ ~canWithdrawRevenue(d, amount)
            THEN [updatedDb |-> d, withdrawals |-> <<>>, error |-> TRUE]
            ELSE LET withdrawals ==
                         IF amount > 0
                         THEN <<createRevenueWithdrawal(
                                    amount, <<"Transaction:", transaction.description>>, NoId)>>
                         ELSE <<>>
                 IN [updatedDb |-> [d EXCEPT !.revenueWithdrawals =
                                       IF amount > 0 THEN d.revenueWithdrawals \o withdrawals
                                       ELSE d.revenueWithdrawals],
                     withdrawals |-> withdrawals,
                     error |-> FALSE]

-----------------------------------------------------------------------------
(* PurchaseForm                                                            *)

\* A line counted with its sub-item quantity whether or not it has sub-items.
lineUnitsIgnoringFlag(l) == l.quantity + l.subItemsQty

\* quantity + (hasSubItems ? (subItemsQty ?? 0) : 0)
lineUnits(l) == l.quantity + (IF l.hasSubItems THEN l.subItemsQty ELSE 0)

\* The parent units of the lines alone, without their sub-items.
totalUnitsOfParents(ls) == SumSeq([i \in DOMAIN ls |-> ls[i].quantity])

totalUnits(ls) == SumSeq([i \in DOMAIN ls |-> lineUnits(ls[i])])

calcSubtotal(ls) == SumSeq([i \in DOMAIN ls |-> ls[i].quantity * ls[i].unitCost])

\* items.find(item => item.id === l.itemId)?.weightLbs ?? 0
itemWeight(items, itemId) ==
    LET item == FindId(items, itemId)
    IN IF item = <<>> THEN 0 ELSE item[1].weightLbs

totalWeight(items, ls) ==
    SumSeq([i \in DOMAIN ls |-> itemWeight(items, ls[i].itemId) * lineUnits(ls[i])])

\* newLines.find(nl => nl.itemId === oldLine.itemId)
findLine(ls, itemId) ==
    LET hits == SelectSeq(ls, LAMBDA nl : nl.itemId = itemId)
    IN IF hits = <<>> THEN <<>> ELSE <<Head(hits)>>

hasQuantityChanges(oldLines, newLines) ==
    IF Len(oldLines) # Len(newLines) THEN TRUE
    ELSE \E i \in DOMAIN oldLines :
            LET newLine == findLine(newLines, oldLines[i].itemId)
            IN \/ newLine = <<>>
               \/ lineUnits(oldLines[i]) # lineUnits(newLine[1])

\* One element of `enriched`: the line with its per-unit allocations.
enrichLine(l, items, lines, subtotal, tax, shipUS, shipIntl) ==
    LET units == totalUnits(lines)
        tw == totalWeight(items, lines)
        lu == lineUnits(l)
        lineWeight == itemWeight(items, l.itemId) * lu
        lineCost == l.quantity * l.unitCost
        perUnitTax == IF subtotal > 0 THEN Frac(tax * lineCost, subtotal * l.quantity)
                      ELSE FromInt(0)
        perUnitShippingUS == IF shipUS > 0 /\ units # 0 THEN Frac(shipUS, units)
                             ELSE FromInt(0)
        weightRatio == IF tw > 0 THEN Frac(lineWeight, tw) ELSE FromInt(0)
        perUnitShippingIntl ==
            IF lu > 0 THEN RDiv(RMul(FromInt(shipIntl), weightRatio), FromInt(lu))
            ELSE FromInt(0)
    IN [itemId |-> l.itemId,
        quantity |-> l.quantity,
        unitCost |-> l.unitCost,
        hasSubItems |-> l.hasSubItems,
        subItemsQty |-> l.subItemsQty,
        perUnitTax |-> perUnitTax,
        perUnitShippingUS |-> perUnitShippingUS,
        perUnitShippingIntl |-> perUnitShippingIntl,
        unitCostPostShipping |->
            RAdd(RAdd(RAdd(FromInt(l.unitCost), perUnitTax), perUnitShippingUS),
                 perUnitShippingIntl)]

\* Flat margins of the automatic prices.
MinMargin == 5
MaxMargin == 10

\* The cost and price fields both branches of save write on the item of a line.
withCosts(it, l) ==
    LET costPost == l.unitCostPostShipping
        autoMin == RCeil(RAdd(costPost, FromInt(MinMargin)))
        autoMax == RCeil(RAdd(costPost, FromInt(MaxMargin)))
    IN [it EXCEPT !.costPreShipping = l.unitCost,
                  !.costPostShipping = costPost,
                  !.minPrice = autoMin,
                  !.maxPrice = autoMax,
                  !.minRevenue = RSub(autoMin, costPost),
                  !.maxRevenue = RSub(autoMax, costPost)]

\* shouldUpdateInventory branch, one line: stock and costs.
applyStockLine(items, l) ==
    [i \in DOMAIN items |->
        IF items[i].id # l.itemId THEN items[i]
        ELSE [withCosts(items[i], l) EXCEPT !.stock = items[i].stock + lineUnits(l)]]

\* else branch, one line: costs only.
applyCostLine(items, l) ==
    [i \in DOMAIN items |->
        IF items[i].id # l.itemId THEN items[i] ELSE withCosts(items[i], l)]

\* enriched.forEach over either branch.
RECURSIVE applyLines(_, _, _)
applyLines(items, ls, updateStock) ==
    IF ls = <<>> THEN items
    ELSE applyLines(IF updateStock THEN applyStockLine(items, Head(ls))
                    ELSE applyCostLine(items, Head(ls)),
                    Tail(ls), updateStock)

\* PurchaseForm.save.  f is the form state, initial the purchase being edited
\* (<<>> for a new one), id the value of initial?.id ?? uid().  called says
\* whether onSave ran; when it did, purchase / items / withdrawals are its
\* arguments (withdrawals = <<>> when the third argument is omitted).
purchaseFormSave(d, initial, f, id) ==
    LET items == d.items
        rejected == [called |-> FALSE, purchase |-> <<>>, items |-> items,
                     withdrawals |-> <<>>]
    IN
    IF Len(f.lines) = 0 THEN rejected
    ELSE IF \E i \in DOMAIN f.lines : f.lines[i].itemId = "" THEN rejected
    ELSE
    LET units == totalUnits(f.lines)
        enriched == [i \in DOMAIN f.lines |->
                        enrichLine(f.lines[i], items, f.lines, f.subtotal, f.tax,
                                   f.shipUS, f.shipIntl)]
        totalCost == f.subtotal + f.tax + f.shipUS + f.shipIntl
        p == [id |-> id,
              lines |-> enriched,
              subtotal |-> f.subtotal,
              tax |-> f.tax,
              shippingUS |-> f.shipUS,
              shippingIntl |-> f.shipIntl,
              weightLbs |-> f.weight,
              totalUnits |-> units,
              totalCost |-> totalCost,
              revenueUsed |-> f.revenueToUse,
              paymentSource |->
                  calculatePaymentBreakdown(totalCost, f.revenueToUse).paymentSource]
        shouldUpdateInventory ==
            initial = <<>> \/ hasQuantityChanges(initial[1].lines, enriched)
        itemsUpdated == applyLines(items, enriched, shouldUpdateInventory)
    IN
    IF f.revenueToUse > 0
    THEN LET exists == FindId(d.purchases, p.id)
             tempPurchases == IF exists # <<>> THEN ReplaceId(d.purchases, p)
                              ELSE Append(d.purchases, p)
             result == processPurchaseWithRevenue(
                           [d EXCEPT !.items = itemsUpdated, !.purchases = tempPurchases],
                           p, f.revenueToUse, f.withdrawalReason)
         IN IF result.threw THEN rejected
            ELSE LET updatedPurchase == FindId(result.updatedDb.purchases, p.id)
                 IN IF updatedPurchase = <<>> THEN rejected
                    ELSE [called |-> TRUE, purchase |-> updatedPurchase[1],
                          items |-> itemsUpdated,
                          withdrawals |-> <<result.updatedDb.revenueWithdrawals>>]
    ELSE [called |-> TRUE, purchase |-> p, items |-> itemsUpdated, withdrawals |-> <<>>]

-----------------------------------------------------------------------------
(* PurchasesPage                                                           *)

\* exists.lines.forEach: take the old units back out of stock, not below 0.
RECURSIVE reverseLines(_, _)
reverseLines(items, ls) ==
    IF ls = <<>> THEN items
    ELSE reverseLines(
             [i \in DOMAIN items |->
                 IF items[i].id = Head(ls).itemId
                 THEN [items[i] EXCEPT !.stock = Max(0, items[i].stock - lineUnits(Head(ls)))]
                 ELSE items[i]],
             Tail(ls))

\* updatedItems.forEach: replace the item of the same id, or push a new one.
RECURSIVE mergeItems(_, _)
mergeItems(itemsWorking, updatedItems) ==
    IF updatedItems = <<>> THEN itemsWorking
    ELSE LET ui == Head(updatedItems)
         IN mergeItems(IF FindId(itemsWorking, ui.id) # <<>>
                       THEN ReplaceId(itemsWorking, ui)
                       ELSE Append(itemsWorking, ui),
                       Tail(updatedItems))

purchasesHandleSave(d, purchase, updatedItems, updatedWithdrawals) ==
    LET exists == FindId(d.purchases, purchase.id)
        reversed == IF exists # <<>> THEN reverseLines(d.items, exists[1].lines)
                    ELSE d.items
        itemsWorking == mergeItems(reversed, updatedItems)
        nextPurchases == IF exists # <<>> THEN ReplaceId(d.purchases, purchase)
                         ELSE Append(d.purchases, purchase)
        nextWithdrawals == IF updatedWithdrawals # <<>> THEN updatedWithdrawals[1]
                           ELSE d.revenueWithdrawals
    IN [d EXCEPT !.items = itemsWorking,
                 !.purchases = nextPurchases,
                 !.revenueWithdrawals = nextWithdrawals]

\* Variant of purchasesOnDelete: the withdrawals the purchase funded go with it.
purchasesOnDeleteRetracting(d, id) ==
    [d EXCEPT !.purchases = RemoveId(d.purchases, id),
              !.revenueWithdrawals =
                  SelectSeq(d.revenueWithdrawals, LAMBDA w : w.linkedPurchaseId # id)]

purchasesOnDelete(d, id) ==
    LET p == FindId(d.purchases, id)
    IN IF p # <<>>
       THEN LET nextItems ==
                    [i \in DOMAIN d.items |->
                        LET qty == SumSeq([j \in DOMAIN p[1].lines |->
                                       IF p[1].lines[j].itemId = d.items[i].id
                                       THEN lineUnits(p[1].lines[j]) ELSE 0])
                        IN [d.items[i] EXCEPT !.stock = Max(0, d.items[i].stock - qty)]]
            IN [d EXCEPT !.items = nextItems, !.purchases = RemoveId(d.purchases, id)]
       ELSE [d EXCEPT !.purchases = RemoveId(d.purchases, id)]

-----------------------------------------------------------------------------
(* SaleForm and SalesPage                                                  *)

\* lines.forEach of SaleForm.save: stock - quantity, not below 0.
RECURSIVE sellLines(_, _)
sellLines(items, ls) ==
    IF ls = <<>> THEN items
    ELSE sellLines(
             [i \in DOMAIN items |->
                 IF items[i].id # Head(ls).itemId THEN items[i]
                 ELSE [items[i] EXCEPT !.stock = Max(0, items[i].stock - Head(ls).quantity)]],
             Tail(ls))

saleFormSave(d, lines, id) ==
    IF Len(lines) = 0 \/ (\E i \in DOMAIN lines : lines[i].itemId = "")
    THEN [called |-> FALSE, sale |-> <<>>, items |-> d.items]
    ELSE [called |-> TRUE,
          sale |-> [id |-> id,
                    lines |-> lines,
                    totalAmount |-> SumSeq([i \in DOMAIN lines |->
                                        lines[i].quantity * lines[i].unitPrice])],
          items |-> sellLines(d.items, lines)]

\* s.lines.forEach of onDelete and of handleSave: put the sold units back.
RECURSIVE restoreLines(_, _)
restoreLines(items, ls) ==
    IF ls = <<>> THEN items
    ELSE restoreLines(
             [i \in DOMAIN items |->
                 IF items[i].id = Head(ls).itemId
                 THEN [items[i] EXCEPT !.stock = items[i].stock + Head(ls).quantity]
                 ELSE items[i]],
             Tail(ls))

\* updatedItems.forEach(ui => itemsWorking.map(it => it.id === ui.id ? ui : it))
RECURSIVE replaceItems(_, _)
replaceItems(itemsWorking, updatedItems) ==
    IF updatedItems = <<>> THEN itemsWorking
    ELSE replaceItems(ReplaceId(itemsWorking, Head(updatedItems)), Tail(updatedItems))

salesHandleSave(d, sale, updatedItems) ==
    LET exists == FindId(d.sales, sale.id)
        restored == IF exists # <<>> THEN restoreLines(d.items, exists[1].lines)
                    ELSE d.items
        itemsWorking == replaceItems(restored, updatedItems)
        nextSales == IF exists # <<>> THEN ReplaceId(d.sales, sale)
                     ELSE Append(d.sales, sale)
    IN [d EXCEPT !.items = itemsWorking, !.sales = nextSales]

\* A delete that drops the sale and leaves the stock as it is.
salesOnDeleteKeepsStock(d, id) == [d EXCEPT !.sales = RemoveId(d.sales, id)]

salesOnDelete(d, id) ==
    LET s == FindId(d.sales, id)
        itemsWorking == IF s # <<>> THEN restoreLines(d.items, s[1].lines) ELSE d.items
    IN [d EXCEPT !.items = itemsWorking, !.sales = RemoveId(d.sales, id)]

-----------------------------------------------------------------------------
(* InventoryPage and InventoryForm                                         *)

\* Percent factors of the prices the recalculation derives (cost * 1.2, * 1.3).
MinFactorPercent == 120
MaxFactorPercent == 130

\* updatedItems[itemIndex] = { ...costs and prices of line l }
withRecalculatedCosts(it, l) ==
    LET costPost == l.unitCostPostShipping
        autoMin == RCeil(RMul(costPost, Frac(MinFactorPercent, 100)))
        autoMax == RCeil(RMul(costPost, Frac(MaxFactorPercent, 100)))
    IN [it EXCEPT !.costPreShipping = l.unitCost,
                  !.costPostShipping = costPost,
                  !.minPrice = autoMin,
                  !.maxPrice = autoMax,
                  !.minRevenue = RSub(autoMin, costPost),
                  !.maxRevenue = RSub(autoMax, costPost)]

\* updatedLines.forEach: the costs of each line onto its item.
RECURSIVE recalculateItems(_, _)
recalculateItems(items, ls) ==
    IF ls = <<>> THEN items
    ELSE recalculateItems(
             [i \in DOMAIN items |->
                 IF items[i].id = Head(ls).itemId
                 THEN withRecalculatedCosts(items[i], Head(ls))
                 ELSE items[i]],
             Tail(ls))

\* updatedLines of one purchase: its allocations computed again.
recalculateLines(items, purchase) ==
    [j \in DOMAIN purchase.lines |->
        enrichLine(purchase.lines[j], items, purchase.lines, purchase.subtotal,
                   purchase.tax, purchase.shippingUS, purchase.shippingIntl)]

\* db.purchases.forEach from purchase n on: [items, purchases].
RECURSIVE recalculateFrom(_, _, _)
recalculateFrom(items, purchases, n) ==
    IF n > Len(purchases) THEN [items |-> items, purchases |-> purchases]
    ELSE LET updatedLines == recalculateLines(items, purchases[n])
         IN recalculateFrom(recalculateItems(items, updatedLines),
                            [purchases EXCEPT ![n] = [@ EXCEPT !.lines = updatedLines]],
                            n + 1)

handleRecalculatePrices(d) ==
    LET out == recalculateFrom(d.items, d.purchases, 1)
    IN [d EXCEPT !.items = out.items, !.purchases = out.purchases]

\* InventoryForm.save of the edit form of item `initial'.  typedMin / typedMax
\* are the prices the user types (<<>>: field not touched); the effect that runs
\* when the form mounts has set both prices to autoMin / autoMax before that.
inventoryFormSave(initial, typedMin, typedMax) ==
    LET costPostShipping == initial.costPostShipping
        autoMin == RCeil(RAdd(costPostShipping, FromInt(MinMargin)))
        autoMax == RCeil(RAdd(costPostShipping, FromInt(MaxMargin)))
        minPrice == IF typedMin # <<>> THEN FromInt(typedMin[1]) ELSE autoMin
        maxPrice == IF typedMax # <<>> THEN FromInt(typedMax[1]) ELSE autoMax
        cost == IF costPostShipping # FromInt(0) THEN costPostShipping
                ELSE FromInt(initial.costPreShipping)
    IN [initial EXCEPT !.minPrice = minPrice,
                       !.maxPrice = maxPrice,
                       !.minRevenue = RSub(minPrice, cost),
                       !.maxRevenue = RSub(maxPrice, cost)]

\* onSave of the inventory form: replace the item of the same id, or add it.
inventoryHandleSave(d, item) ==
    [d EXCEPT !.items = IF FindId(d.items, item.id) # <<>>
                        THEN ReplaceId(d.items, item)
                        ELSE Append(d.items, item)]

-----------------------------------------------------------------------------
(* TransactionsPage                                                        *)

\* handleSave: ok = FALSE is the early return after the alert.
transactionsHandleSave(d, transaction) ==
    LET exists == FindId(d.transactions, transaction.id)
        usesRevenue == /\ transaction.type # "income"
                       /\ transaction.type # "discount"
                       /\ transaction.paymentSource \in {"revenue", "mixed"}
        processed == processTransactionWithRevenue(d, transaction)
    IN IF usesRevenue /\ processed.error
       THEN [ok |-> FALSE, db |-> d]
       ELSE LET updatedDb == IF usesRevenue THEN processed.updatedDb ELSE d
                nextTransactions ==
                    IF exists # <<>> THEN ReplaceId(updatedDb.transactions, transaction)
                    ELSE Append(updatedDb.transactions, transaction)
            IN [ok |-> TRUE, db |-> [updatedDb EXCEPT !.transactions = nextTransactions]]

transactionsOnDelete(d, id) ==
    [d EXCEPT !.transactions = RemoveId(d.transactions, id)]

-----------------------------------------------------------------------------
(* utils: weeks.  An instant is a number of ticks since a Sunday 00:00;    *)
(* a day has DayTicks ticks, and no day is longer or shorter than that.    *)

DayTicks == 2
MaxInstant == 30

\* Date.getDay(): 0 is Sunday.
getDay(t) == (t \div DayTicks) % 7

\* getStartOfWeek: the instant `day' days of 24 hours earlier.
getStartOfWeek(date) == date - getDay(date) * DayTicks

\* The while loop of getWeeksInRange from `current' on.
RECURSIVE weeksFrom(_, _)
weeksFrom(current, endDate) ==
    IF current <= endDate
    THEN <<[start |-> current, end |-> Min(current + 6 * DayTicks, endDate)]>>
             \o weeksFrom(current + 7 * DayTicks, endDate)
    ELSE <<>>

getWeeksInRange(startDate, endDate) == weeksFrom(getStartOfWeek(startDate), endDate)

isDateInWeek(date, weekStart, weekEnd) == date >= weekStart /\ date <= weekEnd

-----------------------------------------------------------------------------
(* storage: the text kept under STORAGE_KEY, backups                       *)

DEFAULT_SETTINGS == [weightCostPerLb |-> 7]

\* What JSON has for a value that is not a finite number.
JsonNull == [null |-> TRUE]

\* JSON.stringify of a number: NaN is written as null.
jsonNumber(r) == IF r = NaN THEN JsonNull ELSE r

stringifyItem(it) ==
    [it EXCEPT !.costPostShipping = jsonNumber(@),
               !.minPrice = jsonNumber(@), !.maxPrice = jsonNumber(@),
               !.minRevenue = jsonNumber(@), !.maxRevenue = jsonNumber(@)]

stringifyLine(l) ==
    [l EXCEPT !.perUnitTax = jsonNumber(@),
              !.perUnitShippingUS = jsonNumber(@),
              !.perUnitShippingIntl = jsonNumber(@),
              !.unitCostPostShipping = jsonNumber(@)]

\* JSON.stringify leaves out a key whose value is undefined.
stringifyWithdrawal(w) ==
    IF w.linkedPurchaseId = NoId THEN [amount |-> w.amount, reason |-> w.reason]
    ELSE w

\* JSON.stringify(db): a JSON text that holds an object.
stringify(d) ==
    [syntax |-> "json", type |-> "object",
     object |->
        [items |-> [i \in DOMAIN d.items |-> stringifyItem(d.items[i])],
         purchases |->
            [i \in DOMAIN d.purchases |->
                [d.purchases[i] EXCEPT !.lines =
                    [j \in DOMAIN @ |-> stringifyLine(@[j])]]],
         sales |-> d.sales,
         settings |-> d.settings,
         revenueWithdrawals |->
            [i \in DOMAIN d.revenueWithdrawals |->
                stringifyWithdrawal(d.revenueWithdrawals[i])],
         transactions |-> d.transactions,
         branches |-> d.branches]]

\* Variant of persist: the sales already stored that the tab does not hold
\* are kept.
persistMerging(stored, next) ==
    [next EXCEPT !.sales =
        @ \o SelectSeq(stored.sales, LAMBDA s : FindId(next.sales, s.id) = <<>>)]

\* saveDB(db): the text stored under STORAGE_KEY.
saveDB(d) == stringify(d)

\* exportBackup(): the stored text of the snapshot last saved.
exportBackup(d) == saveDB(d)

\* A key of a parsed object, or the default when the object does not have it.
orDefault(object, key, default) ==
    IF key \in DOMAIN object THEN object[key] ELSE default

\* The object with the top-level fields the current format has.
withDefaults(object) ==
    [k \in DOMAIN object \cup {"settings", "revenueWithdrawals", "transactions",
                               "branches"} |->
        IF k = "settings" THEN orDefault(object, k, DEFAULT_SETTINGS)
        ELSE IF k \in {"revenueWithdrawals", "transactions", "branches"}
             THEN orDefault(object, k, <<>>)
        ELSE object[k]]

\* dataConverter.processBackupFile: the conversion of a backup that has items
\* but not the current shape; collections it does not have are empty.
processBackupFile(object) ==
    [syntax |-> "json", type |-> "object",
     object |-> [items |-> object.items,
                 purchases |-> orDefault(object, "purchases", <<>>),
                 sales |-> orDefault(object, "sales", <<>>),
                 settings |-> DEFAULT_SETTINGS,
                 revenueWithdrawals |-> orDefault(object, "revenueWithdrawals", <<>>),
                 transactions |-> orDefault(object, "transactions", <<>>),
                 branches |-> orDefault(object, "branches", <<>>)]]

\* Variant of importBackup: the text is stored before it is looked at.
importBackupWritingFirst(stored, json) ==
    IF json.syntax # "json" \/ json.type # "object" \/ "items" \notin DOMAIN json.object
    THEN [threw |-> TRUE, stored |-> json]
    ELSE [threw |-> FALSE, stored |-> json]

\* Variant of importBackup: the withdrawals of the backup are not taken over.
importBackupWithoutLedger(stored, json) ==
    IF json.syntax # "json" \/ json.type # "object" \/ "items" \notin DOMAIN json.object
    THEN [threw |-> TRUE, stored |-> stored]
    ELSE IF {"settings", "purchases", "sales"} \subseteq DOMAIN json.object
    THEN [threw |-> FALSE,
          stored |-> [json EXCEPT !.object =
                         [withDefaults(@) EXCEPT !.revenueWithdrawals = <<>>]]]
    ELSE [threw |-> FALSE, stored |-> processBackupFile(json.object)]

\* importBackup(json) with `stored' under STORAGE_KEY: whether it threw and
\* the text stored afterwards.
importBackup(stored, json) ==
    IF json.syntax # "json" THEN [threw |-> TRUE, stored |-> stored]
    ELSE IF json.type \in {"null", "number", "string", "boolean"}
    THEN [threw |-> TRUE, stored |-> stored]
    ELSE LET parsed == IF json.type = "object" THEN json.object ELSE <<>>
         IN IF {"settings", "items", "purchases", "sales"} \subseteq DOMAIN parsed
            THEN [threw |-> FALSE,
                  stored |-> [json EXCEPT !.object = withDefaults(parsed)]]
            ELSE IF "items" \in DOMAIN parsed
            THEN [threw |-> FALSE, stored |-> processBackupFile(parsed)]
            ELSE [threw |-> TRUE, stored |-> stored]

\* A withdrawal read from parsed JSON: a key that is missing reads undefined.
readWithdrawal(j) ==
    [amount |-> j.amount, reason |-> j.reason,
     linkedPurchaseId |-> IF "linkedPurchaseId" \in DOMAIN j THEN j.linkedPurchaseId
                          ELSE NoId]

\* loadDB() with `stored' under STORAGE_KEY.
loadDB(stored) ==
    LET parsed == withDefaults(stored.object)
    IN [items |-> parsed.items,
        purchases |-> parsed.purchases,
        sales |-> parsed.sales,
        transactions |-> parsed.transactions,
        settings |-> parsed.settings,
        revenueWithdrawals |->
            [i \in DOMAIN parsed.revenueWithdrawals |->
                readWithdrawal(parsed.revenueWithdrawals[i])],
        branches |-> parsed.branches]

\* persist(next) of a tab, with `stored' the snapshot in storage: saveDB writes
\* the text of next over it; the snapshot persisted is the one that text reads as.
persist(stored, next) == loadDB(saveDB(next))

-----------------------------------------------------------------------------
(* The snapshot and the inputs the handlers are driven with                *)

\* QuickAddItemForm.save: a new item, to be filled by its first purchase.
quickAddItem(id, weightLbs) ==
    [id |-> id, stock |-> 0, weightLbs |-> weightLbs,
     costPreShipping |-> 0, costPostShipping |-> FromInt(0),
     minPrice |-> FromInt(5), maxPrice |-> FromInt(10),
     minRevenue |-> FromInt(0), maxRevenue |-> FromInt(0)]

InitialDB ==
    [items |-> <<quickAddItem("a", 1), quickAddItem("b", 0)>>,
     purchases |-> <<>>,
     sales |-> <<>>,
     transactions |-> <<>>,
     settings |-> [weightCostPerLb |-> 7],
     revenueWithdrawals |-> <<>>,
     branches |-> <<>>]

\* The tabs that have the application open.
Writers == {"A", "B"}

NoOp == [kind |-> "init", id |-> NoId, initial |-> <<>>, arg |-> <<>>, ok |-> TRUE,
         result |-> <<>>]

Line(itemId, quantity, unitCost, hasSubItems, subItemsQty) ==
    [itemId |-> itemId, quantity |-> quantity, unitCost |-> unitCost,
     hasSubItems |-> hasSubItems, subItemsQty |-> subItemsQty]

\* Form state of a purchase with the default subtotal and no revenue chosen.
Form(lines, tax) ==
    [lines |-> lines, subtotal |-> calcSubtotal(lines), tax |-> tax,
     shipUS |-> 0, shipIntl |-> 0, weight |-> 1,
     revenueToUse |-> 0, withdrawalReason |-> <<"Business re-investment">>]

SaleLine(itemId, quantity, unitPrice) ==
    [itemId |-> itemId, quantity |-> quantity, unitPrice |-> unitPrice]

Transaction(type, amount, paymentSource, revenueAmount) ==
    [id |-> NoId, type |-> type, amount |-> amount, paymentSource |-> paymentSource,
     revenueAmount |-> revenueAmount, description |-> "d"]

\* Ledger runs: one-line purchases of cost 0, 1 or 2, a sale of 2, and a
\* transaction for each path of the transaction save: income, an expense paid
\* externally, from revenue, or mixed with and without a revenue part, and a
\* discount.
LedgerForms == {Form(<<Line("a", 1, c, FALSE, 0)>>, 0) : c \in {0, 1, 2}}
LedgerSales == {<<SaleLine("a", 1, 2)>>}
LedgerTransactions ==
    {Transaction("income", 1, "none", 0)}
    \cup {Transaction("expense", 1, src, 0) : src \in {"external", "revenue"}}
    \cup {Transaction("expense", 2, "mixed", r) : r \in {0, 1}}
    \cup {Transaction("discount", 1, "revenue", 0)}
\* Amounts typed into the revenue dialog.
LedgerRevenue == {1, 2}
\* Amounts and costs the dialog evaluates while the user types.
TypedAmounts == -1 .. 3
TypedCosts == 0 .. 2

\* Stock runs: lines of one or two items, negative and sub-item quantities,
\* the same item twice, and a tax-only or cost-only variation.
StockForms ==
    {Form(<<Line("a", q, 1, FALSE, 0)>>, 0) : q \in {-1, 1, 2}}
    \cup {Form(<<Line("a", 1, 1, FALSE, 0)>>, 1),
          Form(<<Line("a", 1, 2, FALSE, 0)>>, 0),
          Form(<<Line("a", 1, 1, TRUE, 1)>>, 0),
          Form(<<Line("a", 1, 1, FALSE, 1)>>, 0),
          Form(<<Line("a", 1, 1, FALSE, 0), Line("a", 2, 2, FALSE, 0)>>, 0),
          Form(<<Line("a", 1, 1, FALSE, 0), Line("a", 2, 2, FALSE, 0)>>, 1),
          Form(<<Line("a", 1, 1, FALSE, 0), Line("b", 1, 2, TRUE, 2)>>, 0)}
StockSales ==
    {<<SaleLine("a", q, 6)>> : q \in {-1, 1, 2}} \cup {<<SaleLine("b", 1, 7)>>}

\* Intake runs: the stock forms and a purchase of the second item alone.
IntakeForms == StockForms \cup {Form(<<Line("b", 1, 1, FALSE, 0)>>, 0)}

\* Form state of a purchase with every cost field typed.
AllocForm(lines, subtotal, tax, shipUS, shipIntl) ==
    [Form(lines, tax) EXCEPT !.subtotal = subtotal, !.shipUS = shipUS,
                            !.shipIntl = shipIntl]

\* Allocation runs: two items of which one has a weight, a line with
\* sub-items, an item without weight alone, a line of quantity 0, an edited
\* subtotal, a subtotal of 0 and a purchase of no units.
AllocForms ==
    {AllocForm(<<Line("a", 1, 1, FALSE, 0), Line("b", 1, 2, FALSE, 0)>>, 3, 3, 2, 2),
     AllocForm(<<Line("a", 2, 1, FALSE, 0), Line("b", 3, 1, FALSE, 0)>>, 5, 10, 5, 0),
     AllocForm(<<Line("a", 1, 1, TRUE, 1)>>, 1, 2, 2, 2),
     AllocForm(<<Line("b", 1, 1, FALSE, 0)>>, 1, 0, 0, 2),
     AllocForm(<<Line("a", 1, 1, FALSE, 0), Line("b", 0, 1, FALSE, 0)>>, 1, 1, 1, 1),
     AllocForm(<<Line("a", 1, 2, FALSE, 0)>>, 4, 2, 0, 0),
     AllocForm(<<Line("a", 1, 0, FALSE, 0)>>, 0, 1, 0, 0),
     AllocForm(<<Line("a", 0, 1, FALSE, 0)>>, 0, 0, 1, 1)}

\* Pricing runs: a one-line purchase with and without tax and at a higher unit
\* cost, a sale, and a price of 20 typed or not typed into the item form.
PriceForms ==
    {Form(<<Line("a", 1, 1, FALSE, 0)>>, t) : t \in {0, 1}}
    \cup {Form(<<Line("a", 1, 2, FALSE, 0)>>, 0)}
PriceSales == {<<SaleLine("a", 1, 6)>>}
TypedPrices == {<<>>, <<20>>}

\* Validation runs: forms with no line, with a line without an item, with a
\* quantity of zero (the field emptied) or below zero, and a valid one.
ValidationForms ==
    {Form(<<>>, 0), Form(<<Line("", 1, 1, FALSE, 0)>>, 0),
     Form(<<Line("a", 1, 1, FALSE, 0), Line("", 1, 1, FALSE, 0)>>, 0)}
    \cup {Form(<<Line("a", q, 1, FALSE, 0)>>, 0) : q \in {-1, 0, 1}}
    \cup {Form(<<Line("a", 1, 1, FALSE, 0), Line("b", 0, 1, FALSE, 0)>>, 0)}
ValidationSales ==
    {<<>>, <<SaleLine("", 1, 6)>>, <<SaleLine("a", 1, 6), SaleLine("", 1, 6)>>}
    \cup {<<SaleLine("a", q, 6)>> : q \in {-1, 0, 1}}
    \cup {<<SaleLine("b", 1, 7)>>}

\* Expense runs: an income, and expenses and fees paid externally, from revenue
\* (1 or 2) or mixed (2, of which 0 or 1 from revenue).
ExpenseTransactions ==
    {Transaction("income", 1, "none", 0)}
    \cup {Transaction(type, 1, "external", 0) : type \in {"expense", "fee"}}
    \cup {Transaction(type, n, "revenue", 0) : type \in {"expense", "fee"}, n \in {1, 2}}
    \cup {Transaction(type, 2, "mixed", r) : type \in {"expense", "fee"}, r \in {0, 1}}

\* Discount runs: an income, and discounts of every payment source with
\* amounts the available revenue covers or not.
DiscountTransactions ==
    {Transaction("income", 1, "none", 0)}
    \cup {Transaction("discount", n, src, 0) : n \in {1, 3}, src \in {"none", "external", "revenue"}}
    \cup {Transaction("discount", 2, "mixed", r) : r \in {0, 1}}

\* Backup runs: purchases with and without revenue, and backup texts that are
\* not JSON, not an object, an object without items, an object with items
\* alone and an object of the current shape without the later collections.
BackupForms == {Form(<<Line("a", 1, 1, FALSE, 0)>>, t) : t \in {0, 1}}
BackupRevenue == {1}
BackupTransactions ==
    {Transaction("income", 1, "none", 0), Transaction("expense", 1, "revenue", 0)}
BackupTexts ==
    {[syntax |-> "malformed"],
     [syntax |-> "json", type |-> "null"],
     [syntax |-> "json", type |-> "number"],
     [syntax |-> "json", type |-> "string"],
     [syntax |-> "json", type |-> "array"],
     [syntax |-> "json", type |-> "object", object |-> <<>>],
     [syntax |-> "json", type |-> "object",
      object |-> [settings |-> DEFAULT_SETTINGS, purchases |-> <<>>, sales |-> <<>>]],
     [syntax |-> "json", type |-> "object",
      object |-> [items |-> <<stringifyItem(quickAddItem("b", 0))>>]],
     [syntax |-> "json", type |-> "object",
      object |-> [items |-> <<stringifyItem(quickAddItem("a", 1))>>,
                  purchases |-> <<>>, sales |-> <<>>,
                  settings |-> DEFAULT_SETTINGS]]}

\* Two-tab runs: a sale, and an income or an expense paid externally.
TabSales == {<<SaleLine("a", 1, 2)>>}
TabTransactions ==
    {Transaction("income", 1, "none", 0), Transaction("expense", 1, "external", 0)}

\* Counting runs: purchases and sales with positive quantities.
CountForms ==
    {Form(<<Line("a", q, 1, FALSE, 0)>>, 0) : q \in {1, 2}}
    \cup {Form(<<Line("a", 1, 1, TRUE, 1)>>, 0),
          Form(<<Line("b", 1, 1, FALSE, 0)>>, 0),
          Form(<<Line("a", 1, 1, FALSE, 0), Line("b", 1, 2, FALSE, 0)>>, 0)}
CountSales == {<<SaleLine("a", q, 6)>> : q \in {1, 2}} \cup {<<SaleLine("b", 1, 7)>>}

\* The sales among `sales' that ask of no item more than it has in stock.
CoveredSales(d, sales) ==
    {ls \in sales :
        \A i \in DOMAIN d.items :
            SumSeq([j \in DOMAIN ls |->
                      IF ls[j].itemId = d.items[i].id THEN ls[j].quantity ELSE 0])
                <= d.items[i].stock}

\* Amounts the revenue dialog lets through (handleSubmit runs only if canProceed).
applicableRevenue(d, typed) == {r \in typed : canWithdrawRevenue(d, r)}

StockInRange(d) == \A i \in DOMAIN d.items : Abs(d.items[i].stock) <= MaxStock

-----------------------------------------------------------------------------
(* Operations                                                              *)

Init ==
    /\ db = InitialDB
    /\ prev = InitialDB
    /\ op = NoOp
    /\ nextId = 1
    /\ tabs = <<>>

\* Two tabs have loaded the snapshot.
InitTabs ==
    /\ db = InitialDB
    /\ prev = InitialDB
    /\ op = NoOp
    /\ nextId = 1
    /\ tabs = [w \in Writers |-> InitialDB]

\* The whole save of the purchase form: PurchaseForm.save, then handleSave
\* and persist when the form calls onSave.
SavePurchase(initial, f, id) ==
    \E res \in {purchaseFormSave(db, initial, f, id)} :
    \E next \in {IF res.called
                 THEN purchasesHandleSave(db, res.purchase, res.items, res.withdrawals)
                 ELSE db} :
       /\ StockInRange(next)
       /\ db' = next
       /\ prev' = db
       /\ UNCHANGED tabs
       /\ op' = [kind |-> "purchaseSave", id |-> id, initial |-> initial, arg |-> f,
                 ok |-> res.called, result |-> <<>>]

RegisterPurchase(forms, typed) ==
    /\ nextId <= MaxIds
    /\ \E f \in forms, r \in {0} \cup applicableRevenue(db, typed) :
          SavePurchase(<<>>, [f EXCEPT !.revenueToUse = r], nextId)
    /\ nextId' = nextId + 1

EditPurchase(forms, typed) ==
    /\ \E i \in DOMAIN db.purchases, f \in forms :
          \E r \in {0, db.purchases[i].revenueUsed} \cup applicableRevenue(db, typed) :
              SavePurchase(<<db.purchases[i]>>, [f EXCEPT !.revenueToUse = r],
                           db.purchases[i].id)
    /\ UNCHANGED nextId

DeletePurchase ==
    /\ \E i \in DOMAIN db.purchases :
          /\ db' = purchasesOnDelete(db, db.purchases[i].id)
          /\ op' = [kind |-> "purchaseDelete", id |-> db.purchases[i].id,
                    initial |-> <<db.purchases[i]>>, arg |-> <<>>, ok |-> TRUE,
                    result |-> <<>>]
    /\ prev' = db
    /\ UNCHANGED tabs
    /\ UNCHANGED nextId

\* The whole save of the sale form: SaleForm.save, then handleSave and persist.
SaveSale(initial, lines, id) ==
    \E res \in {saleFormSave(db, lines, id)} :
    \E next \in {IF res.called THEN salesHandleSave(db, res.sale, res.items) ELSE db} :
       /\ StockInRange(next)
       /\ db' = next
       /\ prev' = db
       /\ UNCHANGED tabs
       /\ op' = [kind |-> "saleSave", id |-> id, initial |-> initial, arg |-> lines,
                 ok |-> res.called, result |-> <<>>]

RegisterSale(sales) ==
    /\ nextId <= MaxIds
    /\ \E lines \in sales : SaveSale(<<>>, lines, nextId)
    /\ nextId' = nextId + 1

EditSale(sales) ==
    /\ \E i \in DOMAIN db.sales, lines \in sales :
          SaveSale(<<db.sales[i]>>, lines, db.sales[i].id)
    /\ UNCHANGED nextId

DeleteSale ==
    /\ \E i \in DOMAIN db.sales :
          \E next \in {salesOnDelete(db, db.sales[i].id)} :
             /\ StockInRange(next)
             /\ db' = next
             /\ op' = [kind |-> "saleDelete", id |-> db.sales[i].id,
                       initial |-> <<db.sales[i]>>, arg |-> <<>>, ok |-> TRUE,
                       result |-> <<>>]
    /\ prev' = db
    /\ UNCHANGED tabs
    /\ UNCHANGED nextId

\* TransactionsPage.handleSave and persist.
SaveTransaction(initial, transaction) ==
    \E res \in {transactionsHandleSave(db, transaction)} :
       /\ db' = res.db
       /\ prev' = db
       /\ UNCHANGED tabs
       /\ op' = [kind |-> "transactionSave", id |-> transaction.id, initial |-> initial,
                 arg |-> transaction, ok |-> res.ok, result |-> <<>>]

RegisterTransaction(transactions) ==
    /\ nextId <= MaxIds
    /\ \E t \in transactions : SaveTransaction(<<>>, [t EXCEPT !.id = nextId])
    /\ nextId' = nextId + 1

EditTransaction(transactions) ==
    /\ \E i \in DOMAIN db.transactions, t \in transactions :
          SaveTransaction(<<db.transactions[i]>>, [t EXCEPT !.id = db.transactions[i].id])
    /\ UNCHANGED nextId

DeleteTransaction ==
    /\ \E i \in DOMAIN db.transactions :
          /\ db' = transactionsOnDelete(db, db.transactions[i].id)
          /\ op' = [kind |-> "transactionDelete", id |-> db.transactions[i].id,
                    initial |-> <<db.transactions[i]>>, arg |-> <<>>, ok |-> TRUE,
                    result |-> <<>>]
    /\ prev' = db
    /\ UNCHANGED tabs
    /\ UNCHANGED nextId

\* InventoryPage: the edit form of an item is opened and saved.
EditItem(prices) ==
    /\ \E i \in DOMAIN db.items, typedMin \in prices, typedMax \in prices :
          /\ db' = inventoryHandleSave(
                       db, inventoryFormSave(db.items[i], typedMin, typedMax))
          /\ op' = [kind |-> "itemSave", id |-> db.items[i].id,
                    initial |-> <<db.items[i]>>,
                    arg |-> [minPrice |-> typedMin, maxPrice |-> typedMax],
                    ok |-> TRUE, result |-> <<>>]
    /\ prev' = db
    /\ UNCHANGED tabs
    /\ UNCHANGED nextId

\* InventoryPage: the recalculate button.
Recalculate ==
    /\ db' = handleRecalculatePrices(db)
    /\ op' = [kind |-> "recalculate", id |-> NoId, initial |-> <<>>, arg |-> <<>>,
              ok |-> TRUE, result |-> <<>>]
    /\ prev' = db
    /\ UNCHANGED tabs
    /\ UNCHANGED nextId

\* RevenueService.processTransactionWithRevenue applied to the snapshot and a
\* transaction; its result is kept in op, the snapshot is not persisted.
ProcessTransaction(transactions) ==
    /\ \E t \in transactions :
          op' = [kind |-> "transactionProcess", id |-> NoId, initial |-> <<>>,
                 arg |-> t, ok |-> TRUE,
                 result |-> processTransactionWithRevenue(db, t)]
    /\ prev' = db
    /\ UNCHANGED tabs
    /\ UNCHANGED <<db, nextId>>

\* useBackupImport.handleImport: importBackup(text), then the refresh of the
\* snapshot in memory when it did not throw.  op.result is the text stored
\* afterwards.
ImportBackup(texts) ==
    /\ \E json \in texts \cup {exportBackup(db)} :
       \E res \in {importBackup(saveDB(db), json)} :
          /\ db' = IF res.threw THEN db ELSE loadDB(res.stored)
          /\ op' = [kind |-> "import", id |-> NoId, initial |-> <<>>, arg |-> json,
                    ok |-> ~res.threw, result |-> <<res.stored>>]
    /\ prev' = db
    /\ UNCHANGED <<nextId, tabs>>

\* A handler of tab w has computed `next' from the snapshot the tab holds and
\* calls persist(next).  op.initial is the snapshot the tab held.
TabPersist(w, kind, id, ok, next) ==
    /\ tabs' = [tabs EXCEPT ![w] = next]
    /\ db' = persist(db, next)
    /\ prev' = db
    /\ op' = [kind |-> kind, id |-> id, initial |-> <<tabs[w]>>, arg |-> w,
              ok |-> ok, result |-> <<>>]

\* Tab w saves a new sale.
TabRegisterSale(sales) ==
    /\ nextId <= MaxIds
    /\ \E w \in Writers, lines \in sales :
       \E res \in {saleFormSave(tabs[w], lines, nextId)} :
          /\ res.called
          /\ StockInRange(salesHandleSave(tabs[w], res.sale, res.items))
          /\ TabPersist(w, "tabSave", nextId, TRUE,
                        salesHandleSave(tabs[w], res.sale, res.items))
    /\ nextId' = nextId + 1

\* Tab w saves a new transaction.
TabRegisterTransaction(transactions) ==
    /\ nextId <= MaxIds
    /\ \E w \in Writers, t \in transactions :
       \E res \in {transactionsHandleSave(tabs[w], [t EXCEPT !.id = nextId])} :
          /\ res.ok
          /\ TabPersist(w, "tabSave", nextId, TRUE, res.db)
    /\ nextId' = nextId + 1

\* Tab w deletes a sale it shows.
TabDeleteSale ==
    /\ \E w \in Writers : \E i \in DOMAIN tabs[w].sales :
          /\ StockInRange(salesOnDelete(tabs[w], tabs[w].sales[i].id))
          /\ TabPersist(w, "tabDelete", tabs[w].sales[i].id, TRUE,
                        salesOnDelete(tabs[w], tabs[w].sales[i].id))
    /\ UNCHANGED nextId

\* Tab w is loaded again: useState(() => loadDB()).
TabReload ==
    /\ \E w \in Writers :
          /\ tabs[w] # db
          /\ tabs' = [tabs EXCEPT ![w] = loadDB(saveDB(db))]
          /\ op' = [kind |-> "tabReload", id |-> NoId, initial |-> <<tabs[w]>>,
                    arg |-> w, ok |-> TRUE, result |-> <<>>]
    /\ prev' = db
    /\ UNCHANGED <<db, nextId>>

\* WeeklyItemSalesSummary: the weeks of a range of dates.
ComputeWeeks ==
    /\ \E startDate \in 0..MaxInstant, endDate \in 0..MaxInstant :
          /\ startDate <= endDate
          /\ op' = [kind |-> "weeks", id |-> NoId, initial |-> <<>>,
                    arg |-> [startDate |-> startDate, endDate |-> endDate],
                    ok |-> TRUE, result |-> getWeeksInRange(startDate, endDate)]
    /\ prev' = db
    /\ UNCHANGED <<db, nextId, tabs>>

\* RevenueManager render: canProceed for the amount typed so far.
CanProceed ==
    /\ \E amount \in TypedAmounts :
          op' = [kind |-> "canWithdraw", id |-> NoId, initial |-> <<>>, arg |-> amount,
                 ok |-> TRUE, result |-> canWithdrawRevenue(db, amount)]
    /\ prev' = db
    /\ UNCHANGED tabs
    /\ UNCHANGED <<db, nextId>>

\* RevenueManager render: the payment breakdown shown for the amount typed so far.
ShowBreakdown ==
    /\ \E totalCost \in TypedCosts, revenueToUse \in TypedAmounts :
          op' = [kind |-> "breakdown", id |-> NoId, initial |-> <<>>,
                 arg |-> [totalCost |-> totalCost, revenueToUse |-> revenueToUse],
                 ok |-> TRUE,
                 result |-> calculatePaymentBreakdown(totalCost, revenueToUse)]
    /\ prev' = db
    /\ UNCHANGED tabs
    /\ UNCHANGED <<db, nextId>>

Next ==
    \/ RegisterPurchase(LedgerForms, LedgerRevenue)
    \/ EditPurchase(LedgerForms, LedgerRevenue)
    \/ DeletePurchase
    \/ RegisterSale(LedgerSales)
    \/ EditSale(LedgerSales)
    \/ DeleteSale
    \/ RegisterTransaction(LedgerTransactions)
    \/ EditTransaction(LedgerTransactions)
    \/ DeleteTransaction

Spec == Init /\ [][Next]_vars

\* The revenue dialog over the balances that sales, income and withdrawals give.
NextDialog ==
    \/ RegisterSale(LedgerSales)
    \/ DeleteSale
    \/ RegisterTransaction(LedgerTransactions)
    \/ CanProceed
    \/ ShowBreakdown

SpecDialog == Init /\ [][NextDialog]_vars

NextStock ==
    \/ RegisterPurchase(StockForms, {})
    \/ EditPurchase(StockForms, {})
    \/ DeletePurchase
    \/ RegisterSale(StockSales)
    \/ EditSale(StockSales)
    \/ DeleteSale

SpecStock == Init /\ [][NextStock]_vars

\* New purchases over the stock that purchases, sales and their deletions build.
NextIntake ==
    \/ RegisterPurchase(IntakeForms, {})
    \/ DeletePurchase
    \/ RegisterSale(StockSales)
    \/ DeleteSale

SpecIntake == Init /\ [][NextIntake]_vars

\* Purchases saved with every kind of cost input, and their deletion.
NextAlloc ==
    \/ RegisterPurchase(AllocForms, {})
    \/ DeletePurchase

SpecAlloc == Init /\ [][NextAlloc]_vars

\* Prices under purchases, sales, the item form and the recalculate button.
NextPricing ==
    \/ RegisterPurchase(PriceForms, {})
    \/ EditPurchase(PriceForms, {})
    \/ DeletePurchase
    \/ RegisterSale(PriceSales)
    \/ EditSale(PriceSales)
    \/ DeleteSale
    \/ EditItem(TypedPrices)
    \/ Recalculate

SpecPricing == Init /\ [][NextPricing]_vars

\* Saves of valid and invalid purchase and sale forms.
NextValidation ==
    \/ RegisterPurchase(ValidationForms, {})
    \/ DeletePurchase
    \/ RegisterSale(ValidationSales)
    \/ DeleteSale

SpecValidation == Init /\ [][NextValidation]_vars

\* Expenses and fees against the revenue of sales and incomes.
NextExpense ==
    \/ RegisterSale(LedgerSales)
    \/ RegisterTransaction(ExpenseTransactions)
    \/ EditTransaction(ExpenseTransactions)
    \/ DeleteTransaction

SpecExpense == Init /\ [][NextExpense]_vars

\* Discounts saved through the page and processed by the service.
NextDiscount ==
    \/ RegisterSale(LedgerSales)
    \/ RegisterTransaction(DiscountTransactions)
    \/ EditTransaction(DiscountTransactions)
    \/ ProcessTransaction(DiscountTransactions)

SpecDiscount == Init /\ [][NextDiscount]_vars

\* Backups exported and imported between purchases, sales and transactions.
NextBackup ==
    \/ RegisterPurchase(BackupForms, BackupRevenue)
    \/ RegisterSale(LedgerSales)
    \/ RegisterTransaction(BackupTransactions)
    \/ ImportBackup(BackupTexts)

SpecBackup == Init /\ [][NextBackup]_vars

\* Two tabs that save and delete from the snapshot each holds.
NextTabs ==
    \/ TabRegisterSale(TabSales)
    \/ TabRegisterTransaction(TabTransactions)
    \/ TabDeleteSale
    \/ TabReload

SpecTabs == InitTabs /\ [][NextTabs]_vars

\* The ledger under creates and deletes alone: no record is edited.
NextCover ==
    \/ RegisterPurchase(LedgerForms, LedgerRevenue)
    \/ DeletePurchase
    \/ RegisterSale(LedgerSales)
    \/ DeleteSale
    \/ RegisterTransaction(BackupTransactions)
    \/ DeleteTransaction

SpecCover == Init /\ [][NextCover]_vars

\* Purchases and sales created and deleted, no sale beyond the stock.
NextCount ==
    \/ RegisterPurchase(CountForms, {})
    \/ DeletePurchase
    \/ RegisterSale(CoveredSales(db, CountSales))
    \/ DeleteSale

SpecCount == Init /\ [][NextCount]_vars

\* The weeks of every range of instants.
NextWeeks == ComputeWeeks

SpecWeeks == Init /\ [][NextWeeks]_vars

-----------------------------------------------------------------------------
(* Properties of the revenue ledger                                        *)

\* Balance of the ledger before any clamp: revenue + income - withdrawn.
Balance(d) ==
    SumSeq([i \in DOMAIN d.sales |-> d.sales[i].totalAmount])
    + SumSeq([i \in DOMAIN d.transactions |->
                IF d.transactions[i].type = "income" THEN d.transactions[i].amount ELSE 0])
    - SumSeq([i \in DOMAIN d.revenueWithdrawals |-> d.revenueWithdrawals[i].amount])

\* The balance on offer: the balance, or 0 when it is negative.
Available(d) == IF Balance(d) < 0 THEN 0 ELSE Balance(d)

\* The withdrawals the last operation appended.
Added == SubSeq(db.revenueWithdrawals, Len(prev.revenueWithdrawals) + 1,
                Len(db.revenueWithdrawals))

IsSave == op.kind \in {"purchaseSave", "transactionSave"} /\ op.ok

\* C1: every withdrawal a purchase save or a transaction save adds has
\* 0 < amount <= available revenue of the snapshot it is added to, and a save
\* that starts with withdrawn <= revenue + income ends with withdrawn <=
\* revenue + income.
C1_SaveKeepsLedgerCovered ==
    IsSave =>
        /\ \A i \in DOMAIN Added :
              Added[i].amount > 0 /\ Added[i].amount <= Available(prev)
        /\ (Balance(prev) >= 0 => Balance(db) >= 0)

\* C2: a request for more revenue than is available is an error and changes
\* nothing: processPurchaseWithRevenue throws, processTransactionWithRevenue
\* returns an error and its input, and the save handlers persist nothing.
C2_InsufficientFundsRejected ==
    /\ (op.kind = "purchaseSave" /\ op.arg.revenueToUse > Available(prev))
           => (~op.ok /\ db = prev)
    /\ (/\ op.kind = "transactionSave"
        /\ op.arg.type \in {"expense", "fee"}
        /\ op.arg.paymentSource \in {"revenue", "mixed"}
        /\ revenueToWithdraw(op.arg) > Available(prev))
           => (~op.ok /\ db = prev)
    /\ \A i \in DOMAIN db.purchases, r \in LedgerRevenue :
           r > Available(db) =>
               processPurchaseWithRevenue(db, db.purchases[i], r, <<"r">>).threw
    /\ \A t \in LedgerTransactions :
           revenueToWithdraw(t) > Available(db) =>
               /\ processTransactionWithRevenue(db, t).error
               /\ processTransactionWithRevenue(db, t).updatedDb = db

\* C2 witness: the save of an edited purchase whose recorded revenue exceeds
\* what is now available was rejected.
C2_Witness ==
    /\ op.kind = "purchaseSave"
    /\ op.initial # <<>>
    /\ op.arg.revenueToUse > Available(prev)
    /\ ~op.ok

\* What C3 says processPurchaseWithRevenue(d, p, r) returns when r can be withdrawn.
C3_Expected(d, p, r) ==
    LET used == Min(r, p.totalCost)
        source == calculatePaymentBreakdown(p.totalCost, r).paymentSource
    IN [d EXCEPT
          !.purchases = [i \in DOMAIN d.purchases |->
                            IF d.purchases[i].id = p.id
                            THEN [p EXCEPT !.revenueUsed = used, !.paymentSource = source]
                            ELSE d.purchases[i]],
          !.revenueWithdrawals =
              IF used > 0
              THEN Append(d.revenueWithdrawals,
                          [amount |-> used, reason |-> <<"r">>, linkedPurchaseId |-> p.id])
              ELSE d.revenueWithdrawals]

\* C3: when canWithdraw(revenueToUse) holds and the purchase is in
\* db.purchases, processPurchaseWithRevenue returns the input with only that
\* purchase stamped (revenueUsed = min(revenueToUse, totalCost), paymentSource)
\* and, iff revenueUsed > 0, one withdrawal of revenueUsed linked to it appended;
\* a purchase save with revenue persists exactly that ledger.
C3_PurchaseWithRevenueEffect ==
    /\ \A i \in DOMAIN db.purchases, r \in LedgerRevenue :
           (r > 0 /\ r <= Available(db)) =>
               LET out == processPurchaseWithRevenue(db, db.purchases[i], r, <<"r">>)
               IN ~out.threw /\ out.updatedDb = C3_Expected(db, db.purchases[i], r)
    /\ (op.kind = "purchaseSave" /\ op.ok /\ op.arg.revenueToUse > 0) =>
           LET p == FindId(db.purchases, op.id)[1]
               used == Min(op.arg.revenueToUse, p.totalCost)
           IN /\ p.revenueUsed = used
              /\ db.revenueWithdrawals =
                     IF used > 0
                     THEN Append(prev.revenueWithdrawals,
                                 [amount |-> used, reason |-> op.arg.withdrawalReason,
                                  linkedPurchaseId |-> op.id])
                     ELSE prev.revenueWithdrawals
              /\ db.sales = prev.sales
              /\ db.transactions = prev.transactions
              /\ db.settings = prev.settings
              /\ \A j \in DOMAIN prev.purchases :
                     prev.purchases[j].id # op.id => db.purchases[j] = prev.purchases[j]

\* C3 witness: a purchase saved with more revenue than it costs appended one
\* withdrawal of its cost, and revenue is left for another withdrawal.
C3_Witness ==
    /\ op.kind = "purchaseSave" /\ op.ok
    /\ op.arg.revenueToUse > FindId(db.purchases, op.id)[1].totalCost
    /\ Len(db.revenueWithdrawals) = Len(prev.revenueWithdrawals) + 1
    /\ Available(db) > 0

\* C4: canWithdrawRevenue(db, amount) is true iff 0 < amount <= availableRevenue(db).
C4_CanWithdrawIff ==
    op.kind = "canWithdraw" =>
        (op.result <=> (op.arg > 0 /\ op.arg <= Available(db)))

\* C4 witness: the gate was asked for exactly the available balance and said yes.
C4_Witness ==
    /\ op.kind = "canWithdraw"
    /\ Available(db) > 0
    /\ op.arg = Available(db)
    /\ op.result = TRUE

\* C5: for totalCost >= 0, revenueUsed is revenueToUse clamped to [0, totalCost],
\* externalPayment is the rest of the cost, both are >= 0, and paymentSource is
\* external / revenue / mixed as revenueUsed is 0 / all / part of the cost.
C5_PaymentBreakdown ==
    (op.kind = "breakdown" /\ op.arg.totalCost >= 0) =>
        LET tc == op.arg.totalCost
            r == op.arg.revenueToUse
            b == op.result
        IN /\ b.revenueUsed = (IF r < 0 THEN 0 ELSE IF r > tc THEN tc ELSE r)
           /\ b.externalPayment = tc - b.revenueUsed
           /\ b.revenueUsed >= 0 /\ b.externalPayment >= 0
           /\ b.paymentSource = (IF b.revenueUsed = 0 THEN "external"
                                 ELSE IF b.externalPayment = 0 THEN "revenue"
                                 ELSE "mixed")

\* C5 witness: a breakdown was computed for more revenue than the cost.
C5_Witness ==
    /\ op.kind = "breakdown"
    /\ op.arg.totalCost > 0
    /\ op.arg.revenueToUse > op.arg.totalCost
    /\ op.result.paymentSource = "revenue"

\* C6: availableRevenue computed from any reachable snapshot is >= 0.
C6_AvailableNonNegative == calculateAvailableRevenue(db) >= 0

\* C6 witness: a sale was deleted after its revenue had been withdrawn.
C6_Witness ==
    /\ op.kind = "saleDelete"
    /\ Balance(db) < 0
    /\ calculateAvailableRevenue(db) = 0

-----------------------------------------------------------------------------
(* Properties of the stock                                                 *)

\* Units the lines ls give to item itemId: quantity, plus the sub-items of a
\* line that has them.
UnitsFor(ls, itemId) ==
    SumSeq([j \in DOMAIN ls |->
               IF ls[j].itemId = itemId
               THEN ls[j].quantity + (IF ls[j].hasSubItems THEN ls[j].subItemsQty ELSE 0)
               ELSE 0])

\* The positions of the lines of ls that name item itemId.
LinesFor(ls, itemId) == {j \in DOMAIN ls : ls[j].itemId = itemId}

\* Same lines in the same order: same items, quantities and sub-item quantities.
SameQuantities(old, new) ==
    /\ Len(old) = Len(new)
    /\ \A j \in DOMAIN old :
          /\ old[j].itemId = new[j].itemId
          /\ old[j].quantity = new[j].quantity
          /\ old[j].hasSubItems = new[j].hasSubItems
          /\ old[j].subItemsQty = new[j].subItemsQty

\* Some line of the edit gives a number of units its old line did not give.
UnitsChanged(old, new) ==
    \/ Len(old) # Len(new)
    \/ \E j \in DOMAIN old :
          \/ old[j].itemId # new[j].itemId
          \/ UnitsFor(<<old[j]>>, old[j].itemId) # UnitsFor(<<new[j]>>, new[j].itemId)

IsPurchaseEdit == op.kind = "purchaseSave" /\ op.ok /\ op.initial # <<>>

\* An edit with nothing unusual about it: positive quantities on the old and
\* the new lines, and no item short of stock before it.
IsPlainPurchaseEdit ==
    /\ IsPurchaseEdit
    /\ \A j \in DOMAIN op.initial[1].lines :
          op.initial[1].lines[j].quantity > 0 /\ op.initial[1].lines[j].subItemsQty >= 0
    /\ \A j \in DOMAIN op.arg.lines :
          op.arg.lines[j].quantity > 0 /\ op.arg.lines[j].subItemsQty >= 0
    /\ \A i \in DOMAIN prev.items : prev.items[i].stock >= 0

IsNewPurchase == op.kind = "purchaseSave" /\ op.ok /\ op.initial = <<>>

\* C7: after any sequence of purchase and sale create / edit / delete
\* operations with the line quantities the forms accept, no item's stock is
\* negative.
C7_StockNeverNegative == \A i \in DOMAIN db.items : db.items[i].stock >= 0

\* C8: after the save of an edit of a purchase in which the units of some line
\* changed (quantities positive, no stock negative before it), every item's
\* stock is its stock before the edit, minus the units of the old lines for
\* that item, plus the units of the new lines for it.
C8_EditChangesStockByDelta ==
    (IsPlainPurchaseEdit /\ UnitsChanged(op.initial[1].lines, op.arg.lines)) =>
        \A i \in DOMAIN prev.items :
            db.items[i].stock =
                prev.items[i].stock
                - UnitsFor(op.initial[1].lines, prev.items[i].id)
                + UnitsFor(op.arg.lines, prev.items[i].id)

\* C9: the save of an edit of a purchase that changes unit cost, subtotal or
\* tax and keeps the lines, their items, quantities and sub-item quantities
\* (quantities positive, no stock negative before it) leaves every item's
\* stock unchanged.
C9_CostOnlyEditKeepsStock ==
    (/\ IsPlainPurchaseEdit
     /\ SameQuantities(op.initial[1].lines, op.arg.lines)
     /\ \/ op.initial[1].tax # op.arg.tax
        \/ op.initial[1].subtotal # op.arg.subtotal
        \/ \E j \in DOMAIN op.arg.lines :
              op.initial[1].lines[j].unitCost # op.arg.lines[j].unitCost) =>
        \A i \in DOMAIN prev.items : db.items[i].stock = prev.items[i].stock

\* C10: the save of a new purchase adds to the stock of each item the sum over
\* the purchase's lines for that item of quantity + (hasSubItems ? subItemsQty
\* : 0), sets the item's costPreShipping and costPostShipping to the unitCost
\* and unitCostPostShipping of its line (the last one naming it), leaves the
\* items on no line unchanged, and appends the purchase to purchases.
C10_NewPurchaseAddsStock ==
    IsNewPurchase =>
        /\ Len(db.purchases) = Len(prev.purchases) + 1
        /\ SubSeq(db.purchases, 1, Len(prev.purchases)) = prev.purchases
        /\ LET p == db.purchases[Len(db.purchases)]
           IN /\ p.id = op.id
              /\ SameQuantities(p.lines, op.arg.lines)
              /\ \A j \in DOMAIN p.lines : p.lines[j].unitCost = op.arg.lines[j].unitCost
              /\ Len(db.items) = Len(prev.items)
              /\ \A i \in DOMAIN prev.items :
                    LET it == prev.items[i]
                        on == LinesFor(p.lines, it.id)
                    IN IF on = {} THEN db.items[i] = it
                       ELSE LET last == CHOOSE j \in on : \A k \in on : k <= j
                            IN /\ db.items[i].id = it.id
                               /\ db.items[i].stock =
                                      it.stock + UnitsFor(op.arg.lines, it.id)
                               /\ db.items[i].costPreShipping = p.lines[last].unitCost
                               /\ db.items[i].costPostShipping =
                                      p.lines[last].unitCostPostShipping

\* C10 witness: a new purchase with two lines of different unit cost for the
\* same item was saved, and the item holds the units of both.
C10_Witness ==
    /\ IsNewPurchase
    /\ Len(op.arg.lines) = 2
    /\ op.arg.lines[1].itemId = op.arg.lines[2].itemId
    /\ op.arg.lines[1].unitCost # op.arg.lines[2].unitCost
    /\ op.arg.tax > 0
    /\ \E i \in DOMAIN db.items :
          /\ db.items[i].id = op.arg.lines[1].itemId
          /\ db.items[i].stock = prev.items[i].stock + 3

\* The entries of s other than the one with identifier id, in order.
Without(s, id) == SelectSeq(s, LAMBDA x : x.id # id)

\* Units the sale lines ls took of item itemId.
SoldOf(ls, itemId) ==
    SumSeq([j \in DOMAIN ls |-> IF ls[j].itemId = itemId THEN ls[j].quantity ELSE 0])

\* C11: deleting a purchase removes it from purchases and sets the stock of
\* each item on one of its lines to max(0, stock - q), q the units (quantity
\* plus sub-items) of its lines for that item; items on no line keep their
\* stock.
C11_PurchaseDeleteTakesUnitsBack ==
    op.kind = "purchaseDelete" =>
        /\ db.purchases = Without(prev.purchases, op.id)
        /\ \A i \in DOMAIN prev.items :
              LET it == prev.items[i]
                  q == UnitsFor(op.initial[1].lines, it.id)
              IN db.items[i].stock =
                     IF LinesFor(op.initial[1].lines, it.id) = {} THEN it.stock
                     ELSE IF it.stock - q < 0 THEN 0 ELSE it.stock - q

\* C12: deleting a sale removes it from sales and adds to the stock of each
\* item the sum of the quantities of the sale's lines for that item; every
\* other field of the items, and purchases, transactions and withdrawals, are
\* unchanged.
C12_SaleDeleteRestoresStock ==
    op.kind = "saleDelete" =>
        /\ db.sales = Without(prev.sales, op.id)
        /\ Len(db.items) = Len(prev.items)
        /\ \A i \in DOMAIN prev.items :
              db.items[i] =
                  [prev.items[i] EXCEPT
                      !.stock = prev.items[i].stock
                                + SoldOf(op.initial[1].lines, prev.items[i].id)]
        /\ db.purchases = prev.purchases
        /\ db.transactions = prev.transactions
        /\ db.revenueWithdrawals = prev.revenueWithdrawals
        /\ db.settings = prev.settings

\* C12 witness: a sale of 2 units was deleted, its item has 2 units more than
\* before the delete and the other item has what it had.
C12_Witness ==
    /\ op.kind = "saleDelete"
    /\ op.initial[1].lines[1].quantity = 2
    /\ \E i \in DOMAIN db.items :
          /\ db.items[i].id = op.initial[1].lines[1].itemId
          /\ db.items[i].stock = prev.items[i].stock + 2
    /\ \E i \in DOMAIN db.items :
          /\ db.items[i].id # op.initial[1].lines[1].itemId
          /\ db.items[i].stock = prev.items[i].stock

-----------------------------------------------------------------------------
(* Properties of the allocation                                            *)

\* Units of one line: quantity, plus its sub-items when it has them.
UnitsOfLine(l) == l.quantity + (IF l.hasSubItems THEN l.subItemsQty ELSE 0)

\* Units of all lines of purchase p.
UnitsOfPurchase(p) == SumSeq([j \in DOMAIN p.lines |-> UnitsOfLine(p.lines[j])])

\* Weight of the item itemId in the snapshot (0 when it has none).
WeightOf(itemId) ==
    SumSeq([i \in DOMAIN db.items |->
               IF db.items[i].id = itemId THEN db.items[i].weightLbs ELSE 0])

\* Weight of all lines of purchase p.
WeightOfPurchase(p) ==
    SumSeq([j \in DOMAIN p.lines |->
               WeightOf(p.lines[j].itemId) * UnitsOfLine(p.lines[j])])

\* Sum over the first n lines of p of the per-unit share `field' times the
\* line's units.
RECURSIVE AllocatedUpTo(_, _, _)
AllocatedUpTo(p, field, n) ==
    IF n = 0 THEN FromInt(0)
    ELSE RAdd(AllocatedUpTo(p, field, n - 1),
              RMul(p.lines[n][field], FromInt(UnitsOfLine(p.lines[n]))))

Allocated(p, field) == AllocatedUpTo(p, field, Len(p.lines))

\* C13: for any saved purchase (of a subtotal > 0 and quantities > 0), with or
\* without sub-items and also with an edited subtotal, the sum over its lines
\* of perUnitTax times the line's units (quantity plus sub-items) equals the
\* purchase's tax.
C13_TaxConserved ==
    \A i \in DOMAIN db.purchases :
        LET p == db.purchases[i]
        IN (p.subtotal > 0 /\ \A j \in DOMAIN p.lines : p.lines[j].quantity > 0) =>
              Allocated(p, "perUnitTax") = FromInt(p.tax)

\* C14: for any saved purchase with total units > 0, every line has
\* perUnitShippingUS = shippingUS / totalUnits, and the sum over lines of
\* perUnitShippingUS times the line's units equals shippingUS.
C14_ShippingUSEqualPerUnit ==
    \A i \in DOMAIN db.purchases :
        LET p == db.purchases[i]
        IN UnitsOfPurchase(p) > 0 =>
              /\ \A j \in DOMAIN p.lines :
                    p.lines[j].perUnitShippingUS = Frac(p.shippingUS, UnitsOfPurchase(p))
              /\ Allocated(p, "perUnitShippingUS") = FromInt(p.shippingUS)

\* C14 witness: a purchase of a line with sub-items was saved with US shipping
\* of 2, and each of its 2 units carries 1.
C14_Witness ==
    /\ op.kind = "purchaseSave" /\ op.ok
    /\ \E i \in DOMAIN db.purchases :
          LET p == db.purchases[i]
          IN /\ p.id = op.id
             /\ p.shippingUS = 2
             /\ p.lines[1].hasSubItems
             /\ UnitsOfPurchase(p) = 2
             /\ p.lines[1].perUnitShippingUS = FromInt(1)

\* C15: for any saved purchase with total units > 0, each line (of units > 0)
\* has perUnitShippingIntl = (shippingIntl * lineWeight / totalWeight) /
\* lineUnits when some line's item has a weight and shippingIntl / totalUnits
\* when none has, and the sum over lines of perUnitShippingIntl times the
\* line's units equals shippingIntl.
C15_ShippingIntlFullyAllocated ==
    \A i \in DOMAIN db.purchases :
        LET p == db.purchases[i]
            tw == WeightOfPurchase(p)
        IN UnitsOfPurchase(p) > 0 =>
              /\ \A j \in DOMAIN p.lines :
                    LET lu == UnitsOfLine(p.lines[j])
                        lw == WeightOf(p.lines[j].itemId) * lu
                    IN lu > 0 =>
                          p.lines[j].perUnitShippingIntl =
                              IF tw > 0 THEN Frac(p.shippingIntl * lw, tw * lu)
                              ELSE Frac(p.shippingIntl, UnitsOfPurchase(p))
              /\ Allocated(p, "perUnitShippingIntl") = FromInt(p.shippingIntl)

\* C16: for any saved purchase, every perUnitTax, perUnitShippingUS and
\* perUnitShippingIntl is a defined number, and the share of a degenerate
\* component is 0: tax for a subtotal of 0 or a line of quantity 0, US shipping
\* for 0 total units, international shipping for 0 total weight or a line of
\* 0 units.
C16_AllocationDefined ==
    \A i \in DOMAIN db.purchases :
        LET p == db.purchases[i]
        IN \A j \in DOMAIN p.lines :
              LET l == p.lines[j]
              IN /\ ~IsNaN(l.perUnitTax)
                 /\ ~IsNaN(l.perUnitShippingUS)
                 /\ ~IsNaN(l.perUnitShippingIntl)
                 /\ (p.subtotal = 0 \/ l.quantity = 0) => l.perUnitTax = FromInt(0)
                 /\ UnitsOfPurchase(p) = 0 => l.perUnitShippingUS = FromInt(0)
                 /\ (WeightOfPurchase(p) = 0 \/ UnitsOfLine(l) = 0)
                        => l.perUnitShippingIntl = FromInt(0)

-----------------------------------------------------------------------------
(* Properties of the prices                                                *)

\* The items whose cost the last operation recomputed: those on a line of the
\* saved purchase, or of any purchase for a recalculation.
Recomputed(it) ==
    \/ /\ op.kind = "purchaseSave" /\ op.ok
       /\ LinesFor(op.arg.lines, it.id) # {}
    \/ /\ op.kind = "recalculate"
       /\ \E i \in DOMAIN db.purchases : LinesFor(db.purchases[i].lines, it.id) # {}

\* C17: after a purchase save or a recalculate action, every item whose cost
\* was recomputed has minPrice = ceil(costPostShipping + 5), maxPrice =
\* ceil(costPostShipping + 10), minRevenue = minPrice - costPostShipping and
\* maxRevenue = maxPrice - costPostShipping.
C17_PricesFromLandedCost ==
    \A i \in DOMAIN db.items :
        LET it == db.items[i]
        IN Recomputed(it) =>
              /\ it.minPrice = RCeil(RAdd(it.costPostShipping, FromInt(5)))
              /\ it.maxPrice = RCeil(RAdd(it.costPostShipping, FromInt(10)))
              /\ it.minRevenue = RSub(it.minPrice, it.costPostShipping)
              /\ it.maxRevenue = RSub(it.maxPrice, it.costPostShipping)

\* C18: minPrice and maxPrice of an item stay as they are across every
\* operation other than a purchase save on that item or a recalculate action:
\* a save of the item's edit form in which the price field was not touched, a
\* sale created, edited or deleted, a purchase deleted, a purchase saved for
\* other items.
C18_PriceOverridesKept ==
    \A i \in DOMAIN prev.items :
        LET before == prev.items[i]
            after == db.items[i]
            saleOrDelete == op.kind \in {"saleSave", "saleDelete", "purchaseDelete"}
            otherPurchase == /\ op.kind = "purchaseSave"
                             /\ LinesFor(op.arg.lines, before.id) = {}
            formOf == op.kind = "itemSave" /\ op.id = before.id
            otherForm == op.kind = "itemSave" /\ op.id # before.id
        IN /\ (saleOrDelete \/ otherPurchase \/ otherForm
                  \/ (formOf /\ op.arg.minPrice = <<>>))
               => after.minPrice = before.minPrice
           /\ (saleOrDelete \/ otherPurchase \/ otherForm
                  \/ (formOf /\ op.arg.maxPrice = <<>>))
               => after.maxPrice = before.maxPrice

-----------------------------------------------------------------------------
(* Properties of the form validation                                       *)

\* The lines of the purchase or sale form the last operation saved.
SavedLines == IF op.kind = "purchaseSave" THEN op.arg.lines ELSE op.arg

InvalidLines(ls) ==
    \/ ls = <<>>
    \/ \E i \in DOMAIN ls : ls[i].itemId = ""
    \/ \E i \in DOMAIN ls : ls[i].quantity <= 0

\* C19: a save of a purchase or of a sale whose line list is empty, or has a
\* line without an item, or has a line of quantity zero or below, is rejected
\* and leaves the snapshot unchanged.
C19_InvalidLinesRejected ==
    (op.kind \in {"purchaseSave", "saleSave"} /\ InvalidLines(SavedLines))
        => (~op.ok /\ db = prev)

-----------------------------------------------------------------------------
(* Properties of the transaction save                                      *)

\* The last operation saved an expense or a fee.
IsExpenseSave == op.kind = "transactionSave" /\ op.arg.type \in {"expense", "fee"}

\* The last operation appended exactly one withdrawal, of this amount, with no
\* linked purchase and a reason that starts with "Transaction:".
AppendedOne(amount) ==
    /\ Len(Added) = 1
    /\ SubSeq(db.revenueWithdrawals, 1, Len(prev.revenueWithdrawals))
           = prev.revenueWithdrawals
    /\ Added[1].amount = amount
    /\ Added[1].linkedPurchaseId = NoId
    /\ Added[1].reason[1] = "Transaction:"

\* C20: a save of an expense or fee transaction when the funds suffice appends
\* exactly one withdrawal of transaction.amount when paymentSource is revenue,
\* exactly one of transaction.revenueAmount when it is mixed and revenueAmount
\* > 0, and none when it is external; the appended withdrawal has no linked
\* purchase and a reason starting with "Transaction:".
C20_TransactionWithdrawal ==
    IsExpenseSave =>
        /\ (op.arg.paymentSource = "revenue" /\ op.arg.amount <= Available(prev))
              => AppendedOne(op.arg.amount)
        /\ (/\ op.arg.paymentSource = "mixed"
            /\ op.arg.revenueAmount > 0
            /\ op.arg.revenueAmount <= Available(prev))
              => AppendedOne(op.arg.revenueAmount)
        /\ op.arg.paymentSource = "external"
              => db.revenueWithdrawals = prev.revenueWithdrawals

C20_Witness ==
    /\ IsExpenseSave
    /\ op.arg.type = "fee"
    /\ op.arg.paymentSource = "mixed"
    /\ op.arg.revenueAmount = 1
    /\ op.arg.amount = 2
    /\ Available(prev) >= 2
    /\ prev.revenueWithdrawals # <<>>
    /\ AppendedOne(1)

-----------------------------------------------------------------------------
(* Properties of discounts, the ledger's history and revenue already used  *)

\* C21: a transaction of type discount never touches the ledger: whether it
\* is saved or processed, with any payment source and amounts, the withdrawals
\* and the available revenue stay as they were.
C21_DiscountLeavesLedger ==
    /\ (op.kind = "transactionSave" /\ op.arg.type = "discount")
          => /\ db.revenueWithdrawals = prev.revenueWithdrawals
             /\ (op.initial = <<>> \/ op.initial[1].type # "income")
                   => calculateAvailableRevenue(db) = calculateAvailableRevenue(prev)
    /\ (op.kind = "transactionProcess" /\ op.arg.type = "discount")
          => /\ op.result.updatedDb.revenueWithdrawals = db.revenueWithdrawals
             /\ op.result.withdrawals = <<>>
             /\ calculateAvailableRevenue(op.result.updatedDb)
                    = calculateAvailableRevenue(db)

IsPrefix(s, t) == Len(s) <= Len(t) /\ SubSeq(t, 1, Len(s)) = s

\* C22: the withdrawal ledger is append-only: after any create, edit or delete
\* of a purchase, a sale or a transaction the withdrawals of before are a
\* prefix of the withdrawals of after; a deleted purchase or transaction leaves
\* the withdrawal it funded in the ledger.
C22_WithdrawalsAppendOnly ==
    IsPrefix(prev.revenueWithdrawals, db.revenueWithdrawals)

\* A purchase that funded a withdrawal has just been deleted.
C22_Witness ==
    /\ op.kind = "purchaseDelete"
    /\ \E i \in DOMAIN prev.revenueWithdrawals :
          /\ prev.revenueWithdrawals[i].linkedPurchaseId = op.id
          /\ db.revenueWithdrawals[i] = prev.revenueWithdrawals[i]
    /\ FindId(db.purchases, op.id) = <<>>

-----------------------------------------------------------------------------
(* Properties of the backups                                               *)

\* C23: for a valid snapshot that has been saved, importing the text export
\* returns leaves the persisted snapshot deep-equal to it: the stored text is
\* the text of that snapshot and the snapshot read back is the same.
C23_ExportImportRoundTrip ==
    (op.kind = "import" /\ op.arg = exportBackup(prev))
        => /\ op.ok
           /\ op.result[1] = saveDB(prev)
           /\ loadDB(op.result[1]) = prev
           /\ db = prev

\* A snapshot with a purchase, a sale, a transaction, a withdrawal with a
\* linked purchase or one without has just gone through export and import.
C23_Witness ==
    /\ op.kind = "import" /\ op.arg = exportBackup(prev)
    /\ prev.revenueWithdrawals # <<>>
    /\ prev.sales # <<>>
    /\ prev.purchases # <<>> \/ prev.transactions # <<>>
    /\ db = prev

\* The texts that are not a backup: not JSON, not an object, no items field.
IsBadBackup(json) ==
    \/ json.syntax # "json"
    \/ json.type # "object"
    \/ "items" \notin DOMAIN json.object

\* C24: importing a text that is malformed JSON, or parses to a non-object, or
\* to an object without an items field raises an error and leaves the
\* persisted snapshot exactly as it was.
C24_BadImportRejected ==
    (op.kind = "import" /\ IsBadBackup(op.arg))
        => /\ ~op.ok
           /\ op.result[1] = saveDB(prev)
           /\ db = prev

C24_Witness ==
    /\ op.kind = "import" /\ IsBadBackup(op.arg)
    /\ op.arg.syntax = "json" /\ op.arg.type = "object"
    /\ prev.sales # <<>>
    /\ op.result[1] = saveDB(prev)

-----------------------------------------------------------------------------
(* Properties of two writers                                               *)

\* The ids of the records of a snapshot.
IdsOf(s) == {s[i].id : i \in DOMAIN s}

\* The last operation was a write of a tab whose snapshot was behind the
\* stored one: the other tab had persisted a sale or a transaction since.
IsStaleWrite ==
    /\ op.kind \in {"tabSave", "tabDelete"}
    /\ \/ IdsOf(prev.sales) \ IdsOf(op.initial[1].sales) # {}
       \/ IdsOf(prev.transactions) \ IdsOf(op.initial[1].transactions) # {}

\* C25: when a tab persists a change computed from its own copy after the
\* other tab has persisted one, the write is not rejected, the persisted
\* snapshot is the writer's snapshot and the other tab's change is not in it.
C25_LastWriteWins ==
    IsStaleWrite =>
        /\ op.ok
        /\ db = tabs[op.arg]
        /\ IdsOf(db.sales) \cap (IdsOf(prev.sales) \ IdsOf(op.initial[1].sales)) = {}
        /\ IdsOf(db.transactions)
              \cap (IdsOf(prev.transactions) \ IdsOf(op.initial[1].transactions)) = {}

\* Tab A saved a sale, then tab B saved one from the copy it had loaded.
C25_Witness ==
    /\ IsStaleWrite
    /\ op.kind = "tabSave" /\ op.arg = "B"
    /\ Len(prev.sales) = 1 /\ op.initial[1].sales = <<>>
    /\ Len(db.sales) = 1 /\ db.sales # prev.sales

-----------------------------------------------------------------------------
(* Properties of the ledger's cover and of revenue already used            *)

\* C26: in every reachable state the withdrawals sum to no more than the
\* sales revenue plus the income: the balance before the clamp at 0 is never
\* negative.
C26_WithdrawalsCovered ==
    calculateTotalWithdrawn(db) <= calculateTotalRevenue(db) + calculateTotalIncome(db)

\* The withdrawals linked to purchase id sum to this.
LinkedTotal(d, id) ==
    SumSeq([i \in DOMAIN d.revenueWithdrawals |->
               IF d.revenueWithdrawals[i].linkedPurchaseId = id
               THEN d.revenueWithdrawals[i].amount ELSE 0])

\* The last operation saved an edit of a purchase, or of an expense or fee,
\* that had revenue applied, with the same revenue amount.
IsEditKeepingRevenue ==
    /\ op.ok /\ op.initial # <<>>
    /\ \/ /\ op.kind = "purchaseSave"
          /\ op.initial[1].revenueUsed > 0
          /\ op.arg.revenueToUse = op.initial[1].revenueUsed
       \/ /\ op.kind = "transactionSave"
          /\ op.initial[1].type \in {"expense", "fee"}
          /\ op.arg.type = op.initial[1].type
          /\ revenueToWithdraw(op.initial[1]) > 0
          /\ revenueToWithdraw(op.arg) = revenueToWithdraw(op.initial[1])

\* C27: a saved edit of a purchase or of an expense or fee transaction that
\* has revenue applied, its revenue amount unchanged, leaves the withdrawals
\* as they are; so the withdrawals linked to a purchase always sum to the
\* purchase's revenueUsed.
C27_EditKeepsWithdrawals ==
    /\ IsEditKeepingRevenue => db.revenueWithdrawals = prev.revenueWithdrawals
    /\ \A i \in DOMAIN db.purchases :
          LinkedTotal(db, db.purchases[i].id) = db.purchases[i].revenueUsed

-----------------------------------------------------------------------------
(* Properties of sale edits and of the stock over time                     *)

\* The last operation saved an edit of a sale with nothing unusual about it:
\* positive quantities on its old and new lines, the same items on both, and
\* every item in stock for at least the quantity of the new lines.
IsPlainSaleEdit ==
    /\ op.kind = "saleSave" /\ op.ok /\ op.initial # <<>>
    /\ \A j \in DOMAIN op.initial[1].lines : op.initial[1].lines[j].quantity > 0
    /\ \A j \in DOMAIN op.arg : op.arg[j].quantity > 0
    /\ \A i \in DOMAIN prev.items :
          /\ prev.items[i].stock >= SoldOf(op.arg, prev.items[i].id)
          /\ (SoldOf(op.arg, prev.items[i].id) > 0)
                = (SoldOf(op.initial[1].lines, prev.items[i].id) > 0)

\* C28: a saved edit of a sale changes the stock of each item by the quantity
\* of the item on the sale's old lines minus the quantity on its new lines; a
\* sale saved again with its lines unchanged leaves every stock unchanged.
C28_SaleEditChangesStockByDelta ==
    IsPlainSaleEdit =>
        \A i \in DOMAIN prev.items :
            db.items[i].stock =
                prev.items[i].stock
                + SoldOf(op.initial[1].lines, prev.items[i].id)
                - SoldOf(op.arg, prev.items[i].id)

\* Units of item itemId on the purchases recorded, quantity on the sales.
PurchasedOf(d, itemId) ==
    SumSeq([i \in DOMAIN d.purchases |-> UnitsFor(d.purchases[i].lines, itemId)])
SoldIn(d, itemId) ==
    SumSeq([i \in DOMAIN d.sales |-> SoldOf(d.sales[i].lines, itemId)])

\* C29: for an item that started at stock 0 and saw only purchases and sales
\* with positive quantities, no sale beyond its stock: whenever the units on
\* the purchases recorded minus the quantity on the sales recorded is >= 0,
\* the stock equals that difference.
C29_StockIsPurchasedMinusSold ==
    \A i \in DOMAIN db.items :
        LET it == db.items[i]
        IN PurchasedOf(db, it.id) - SoldIn(db, it.id) >= 0
              => it.stock = PurchasedOf(db, it.id) - SoldIn(db, it.id)

-----------------------------------------------------------------------------
(* Properties of the weeks                                                 *)

\* C30: for startDate <= endDate getWeeksInRange returns buckets such that
\* every instant from the start of the first bucket to endDate is in exactly
\* one bucket by isDateInWeek: none between two buckets, none in two.
C30_WeeksPartitionRange ==
    op.kind = "weeks" =>
        /\ op.result # <<>>
        /\ \A t \in 0..MaxInstant :
              (op.result[1].start <= t /\ t <= op.arg.endDate)
                  => Cardinality({i \in DOMAIN op.result :
                         isDateInWeek(t, op.result[i].start, op.result[i].end)}) = 1
====
